---- MODULE Spec2Model ----
(***************************************************************************)
(* A model of mclazy.py: the per-package update pipeline of main(), its    *)
(* lock marker, the version resolution and the build/publish stages.       *)
(*                                                                         *)
(* Text (versions, acceptance patterns, marker contents) is a sequence of  *)
(* one-character strings, so that globbing, the regular-expression         *)
(* rewrites and the rpm version comparison work on characters as the code  *)
(* does.                                                                   *)
(*                                                                         *)
(* The actions are those of one invocation p in a world W, the record of   *)
(* the inputs the invocation can meet: Locking (the markers), Resolving    *)
(* (the versions and patterns), Optioned (every combination of the         *)
(* options), Rewriting (the layouts of the descriptor) and Concurrent (two *)
(* invocations at once).  Each world has its specification.                *)
(***************************************************************************)
EXTENDS Integers, Sequences, FiniteSets, TLC

(***************************************************************************)
(* Characters                                                              *)
(***************************************************************************)
Digits == <<"0", "1", "2", "3", "4", "5", "6", "7", "8", "9">>

Letters == <<"a", "b", "c", "e", "h", "l", "p", "r", "t">>

IndexOf(c, seq) == CHOOSE i \in 1..Len(seq) : seq[i] = c

IsDigit(c) == \E i \in 1..Len(Digits) : Digits[i] = c

IsAlpha(c) == \E i \in 1..Len(Letters) : Letters[i] = c

\* strcmp order of two characters of the same class: -1, 0, 1
CharCmp(a, b) ==
    LET tab == IF IsDigit(a) THEN Digits ELSE Letters
        x == IndexOf(a, tab)
        y == IndexOf(b, tab)
    IN IF x < y THEN -1 ELSE IF x > y THEN 1 ELSE 0

Drop(s, n) == SubSeq(s, n + 1, Len(s))

Take(s, n) == SubSeq(s, 1, n)

StartsWith(s, w) == Len(s) >= Len(w) /\ Take(s, Len(w)) = w

(***************************************************************************)
(* re.sub('([0-9]+)<sep>(alpha|beta|rc)', r'\1<to>\2', s), <sep> being     *)
(* either the regex "." (any character) or a literal character.            *)
(***************************************************************************)
PreWords == << <<"a", "l", "p", "h", "a">>, <<"b", "e", "t", "a">>, <<"r", "c">> >>

\* the length of the run of digits at the head of s
RECURSIVE DigitRun(_)
DigitRun(s) == IF s # <<>> /\ IsDigit(Head(s)) THEN 1 + DigitRun(Tail(s)) ELSE 0

\* the pre-release word at the head of s, or <<>>
WordAt(s) ==
    IF \E i \in 1..Len(PreWords) : StartsWith(s, PreWords[i])
    THEN PreWords[CHOOSE i \in 1..Len(PreWords) : StartsWith(s, PreWords[i])]
    ELSE <<>>

\* does the pattern match at the head of s with a digit group of length d
MatchWith(s, d, sep) ==
    /\ d >= 1
    /\ Len(s) > d
    /\ (sep = "any" \/ s[d + 1] = sep)
    /\ WordAt(Drop(s, d + 1)) # <<>>

\* the greedy digit group backtracks from the whole run down to one digit
MatchLen(s, sep) ==
    LET n == DigitRun(s)
        ok == {d \in 1..n : MatchWith(s, d, sep)}
    IN IF ok = {} THEN 0 ELSE CHOOSE d \in ok : \A e \in ok : e <= d

RECURSIVE ReSub(_, _, _)
ReSub(s, sep, to) ==
    IF s = <<>> THEN <<>>
    ELSE LET d == MatchLen(s, sep)
         IN IF d = 0
            THEN <<Head(s)>> \o ReSub(Tail(s), sep, to)
            ELSE LET w == WordAt(Drop(s, d + 1))
                 IN Take(s, d) \o <<to>> \o w \o ReSub(Drop(s, d + 1 + Len(w)), sep, to)

\* line 285, 306: re.sub('([0-9]+).(alpha|beta|rc)', r'\1~\2', v)
Tilde(v) == ReSub(v, "any", "~")

\* line 243: re.sub('([0-9]+)~(alpha|beta|rc)', r'\1.\2', v)
Dot(v) == ReSub(v, "~", ".")

(***************************************************************************)
(* fnmatch.fnmatch(name, pat): "*" matches any run of characters, "?" one  *)
(* character, anything else itself; the whole name must match.             *)
(***************************************************************************)
RECURSIVE Fnmatch(_, _)
Fnmatch(name, pat) ==
    IF pat = <<>> THEN name = <<>>
    ELSE IF Head(pat) = "*"
         THEN \E k \in 0..Len(name) : Fnmatch(Drop(name, k), Tail(pat))
         ELSE /\ name # <<>>
              /\ (Head(pat) = "?" \/ Head(pat) = Head(name))
              /\ Fnmatch(Tail(name), Tail(pat))

\* str.split(c): the pieces between the separators, empty pieces included
RECURSIVE Split(_, _)
Split(s, c) ==
    IF \E i \in 1..Len(s) : s[i] = c
    THEN LET i == CHOOSE j \in 1..Len(s) : s[j] = c /\ \A h \in 1..(j - 1) : s[h] # c
         IN <<Take(s, i - 1)>> \o Split(Drop(s, i), c)
    ELSE <<s>>

\* lines 286-290: version_valid
VersionValid(remote_ver, gnome_branch) ==
    LET alts == Split(gnome_branch, ",")
    IN \E i \in 1..Len(alts) : Fnmatch(remote_ver, alts[i])

(***************************************************************************)
(* rpm.labelCompare((None, a, None), (None, b, None)): with no epoch and   *)
(* no release on either side it is rpmvercmp(a, b).                        *)
(***************************************************************************)
IsSep(c) == ~IsDigit(c) /\ ~IsAlpha(c) /\ c # "~"

RECURSIVE SkipSeps(_)
SkipSeps(s) == IF s # <<>> /\ IsSep(Head(s)) THEN SkipSeps(Tail(s)) ELSE s

RECURSIVE AlphaRun(_)
AlphaRun(s) == IF s # <<>> /\ IsAlpha(Head(s)) THEN 1 + AlphaRun(Tail(s)) ELSE 0

RECURSIVE StripZeros(_)
StripZeros(s) == IF s # <<>> /\ Head(s) = "0" THEN StripZeros(Tail(s)) ELSE s

\* strcmp of two segments of one class
RECURSIVE StrCmp(_, _)
StrCmp(a, b) ==
    IF a = <<>> /\ b = <<>> THEN 0
    ELSE IF a = <<>> THEN -1
    ELSE IF b = <<>> THEN 1
    ELSE LET c == CharCmp(Head(a), Head(b))
         IN IF c # 0 THEN c ELSE StrCmp(Tail(a), Tail(b))

RECURSIVE VerCmpLoop(_, _)
VerCmpLoop(a, b) ==
    LET one == SkipSeps(a)
        two == SkipSeps(b)
    IN IF one = <<>> /\ two = <<>> THEN 0
       ELSE IF (one # <<>> /\ Head(one) = "~") \/ (two # <<>> /\ Head(two) = "~")
       THEN IF one = <<>> \/ Head(one) # "~" THEN 1
            ELSE IF two = <<>> \/ Head(two) # "~" THEN -1
            ELSE VerCmpLoop(Tail(one), Tail(two))
       ELSE IF one = <<>> THEN -1
       ELSE IF two = <<>> THEN 1
       ELSE LET isnum == IsDigit(Head(one))
                n1 == IF isnum THEN DigitRun(one) ELSE AlphaRun(one)
                n2 == IF isnum THEN DigitRun(two) ELSE AlphaRun(two)
            IN IF n2 = 0 THEN (IF isnum THEN 1 ELSE -1)
               ELSE LET s1 == IF isnum THEN StripZeros(Take(one, n1)) ELSE Take(one, n1)
                        s2 == IF isnum THEN StripZeros(Take(two, n2)) ELSE Take(two, n2)
                    IN IF isnum /\ Len(s1) > Len(s2) THEN 1
                       ELSE IF isnum /\ Len(s1) < Len(s2) THEN -1
                       ELSE LET c == StrCmp(s1, s2)
                            IN IF c # 0 THEN c
                               ELSE VerCmpLoop(Drop(one, n1), Drop(two, n2))

LabelCompare(a, b) == IF a = b THEN 0 ELSE VerCmpLoop(a, b)


(***************************************************************************)
(* Text values                                                             *)
(***************************************************************************)
V3_44_0 == <<"3", ".", "4", "4", ".", "0">>

V3_44_1 == <<"3", ".", "4", "4", ".", "1">>

V3_45_0 == <<"3", ".", "4", "5", ".", "0">>

V3_44_rc == <<"3", ".", "4", "4", ".", "r", "c">>

V4_0_0 == <<"4", ".", "0", ".", "0">>

V0_rc == <<"0", ".", "r", "c">>

V45 == <<"4", "5">>

V45_1 == <<"4", "5", ".", "1">>

\* line 282: the initial newest_remote_version, '0'
Zero == <<"0">>

\* Python's None, for new_version (line 308)
None == <<"None">>

G3_44 == <<"3", ".", "4", "4", ".", "*">>

G3_46 == <<"3", ".", "4", "6", ".", "*">>

G3_44or4 == <<"3", ".", "4", "4", ".", "*", ",", "4", ".", "*">>

GAny == <<"*">>

(***************************************************************************)
(* The package descriptor: a sequence of lines, a line the sequence of its *)
(* key, its separator, the characters of its value and "\n".               *)
(***************************************************************************)
SpecLine(key, sep, value) == <<key>> \o sep \o value \o <<"\n">>

\* line.find(c) != -1
Find(line, c) == \E i \in 1..Len(line) : line[i] = c

\* line.rsplit(c, 1)[0]
RSplitHead(line, c) ==
    LET last == CHOOSE i \in 1..Len(line) :
                    line[i] = c /\ \A j \in (i + 1)..Len(line) : line[j] # c
    IN Take(line, last - 1)

\* lines 53-58
replace_spec_value(line, replace) ==
    IF Find(line, " ") THEN RSplitHead(line, " ") \o <<" ">> \o replace
    ELSE IF Find(line, "\t") THEN RSplitHead(line, "\t") \o <<"\t">> \o replace
    ELSE line

\* line 120: the versions of the new ftp scheme
NewScheme == {<<"4", "0">>, <<"4", "1">>, <<"4", "2">>}

\* line 123: v[1] of a version with no "." raises IndexError
MajorMinorRaises(ver) ==
    LET v == Split(ver, ".") IN v[1] \notin NewScheme /\ Len(v) < 2

\* lines 117-123, of a version for which it returns
majorminor(ver) ==
    LET v == Split(ver, ".")
    IN IF v[1] \in NewScheme THEN v[1] ELSE v[1] \o <<".">> \o v[2]

\* the pattern pat, "." in it any character but the newline, matches at line[i]
MatchesAt(line, pat, i) ==
    /\ i + Len(pat) - 1 <= Len(line)
    /\ \A k \in 1..Len(pat) :
          IF pat[k] = "." THEN line[i + k - 1] # "\n" ELSE line[i + k - 1] = pat[k]

\* line 381: re.sub(pat, repl, line), every match from the left replaced
RECURSIVE ReSubAll(_, _, _)
ReSubAll(line, pat, repl) ==
    IF line = <<>> THEN <<>>
    ELSE IF MatchesAt(line, pat, 1)
    THEN repl \o ReSubAll(Drop(line, Len(pat)), pat, repl)
    ELSE <<Head(line)>> \o ReSubAll(Tail(line), pat, repl)

SourceKeys == {"Source:", "Source0:"}

\* lines 381-383 raise for this line
LineRaises(line, version_dot, new) ==
    /\ Head(line) \in SourceKeys
    /\ MajorMinorRaises(version_dot) \/ MajorMinorRaises(new)

\* lines 376-383: the line that is written for a line of the descriptor
RewriteLine(line, version_dot, new) ==
    IF Head(line) = "Version:"
    THEN replace_spec_value(line, Tilde(new) \o <<"\n">>)
    ELSE IF Head(line) = "Release:" /\ ~Find(line, "autorelease")
    THEN replace_spec_value(line, <<"0%{?dist}", "\n">>)
    ELSE IF Head(line) \in SourceKeys
    THEN ReSubAll(line, <<"/">> \o majorminor(version_dot) \o <<"/">>,
                  <<"/">> \o majorminor(new) \o <<"/">>)
    ELSE line

\* the layouts of a descriptor: the separator of key and value, a Release
\* computed by %autorelease or not, a Source0 line or none
Layouts == [sep : {<<" ">>, <<"\t">>, <<>>}, auto : BOOLEAN, source : BOOLEAN]

PlainLayout == [sep |-> <<" ">>, auto |-> FALSE, source |-> TRUE]

\* the path segment of the download location of version v
Segment(v) ==
    IF MajorMinorRaises(Dot(v)) THEN Split(Dot(v), ".")[1] ELSE majorminor(Dot(v))

\* the descriptor of version v in a layout
Descriptor(layout, v) ==
    << SpecLine("Name:", layout.sep, <<"gtk">>),
       SpecLine("Version:", layout.sep, v),
       SpecLine("Release:", layout.sep,
                IF layout.auto THEN <<"%", "autorelease">> ELSE <<"5%{?dist}">>) >>
    \o (IF layout.source
        THEN << SpecLine("Source0:", layout.sep,
                         <<"https://download.gnome.org/sources/gtk", "/">> \o Segment(v)
                         \o <<"/", "gtk-%{version}.tar.xz">>) >>
        ELSE << >>)

(***************************************************************************)
(* Process identifiers and the lock marker                                 *)
(***************************************************************************)
\* the invocations of the program
Procs == {1, 2}

\* a process that was killed earlier, and an unrelated process that runs
DeadPids == {3}

LivePids == {4}

\* "%s" % os.getpid() (line 206), for the one-digit identifiers used here
PidText(n) == <<Digits[n + 1]>>

\* int(f.read()) (line 191): <<n>>, or <<>> for a ValueError
RECURSIVE ParseInt(_)
ParseInt(text) ==
    IF text = <<>> \/ \E i \in 1..Len(text) : ~IsDigit(text[i]) THEN <<>>
    ELSE IF Len(text) = 1 THEN <<IndexOf(text[1], Digits) - 1>>
    ELSE <<10 * ParseInt(Take(text, Len(text) - 1))[1] + IndexOf(text[Len(text)], Digits) - 1>>

\* no marker file
NoFile == <<"ENOENT">>

\* the marker an empty file: what open(lock_filename, 'w') leaves before the write
Empty == <<>>

(***************************************************************************)
(* Bounds                                                                  *)
(***************************************************************************)
\* packages in the configuration
NPkgs == 2

\* published remote versions of a module
MaxRemote == 3

Pkgs == 1..NPkgs

\* line 252: for i in range (1, 20)
RangeStart == 1

RangeStop == 20

Branches == {"rawhide", "f42", "f38"}

\* lines 437-446: the branches that have a release tag
KnownBranches == {"f39", "f40", "f41", "f42", "rawhide"}

Flags == [fedora_branch : Branches, simulate : BOOLEAN, check_installed : BOOLEAN,
          relax_version_checks : BOOLEAN, no_build : BOOLEAN, no_mockbuild : BOOLEAN,
          no_rawhide_sync : BOOLEAN]

\* the defaults of lines 133-139
DefaultFlags ==
    [fedora_branch |-> "rawhide", simulate |-> FALSE, check_installed |-> FALSE,
     relax_version_checks |-> FALSE, no_build |-> FALSE, no_mockbuild |-> FALSE,
     no_rawhide_sync |-> FALSE]

VARIABLES
    args,                   \* args of each invocation (line 144)
    marker,                 \* the lock marker file of each package
    pc,                     \* where each invocation is in main()
    idx,                    \* the package the for loop of line 179 is at
    pid,                    \* the local pid (line 191): <<>> unbound, or <<n>>
    is_still_running,       \* line 188
    version,                \* line 242
    tries,                  \* i of line 252
    attempts,               \* the calls of urlretrieve at line 254 for this package
    gnome_branch,           \* line 263
    left,                   \* remote versions the loop of line 284 has yet to visit
    newest_remote_version,  \* line 282
    new_version,            \* line 308
    cont,                   \* where unlock_file returns to
    reason,                 \* why the current package ended
    outcome,                \* the terminal outcome of the package an invocation left last
    effects,                \* the commands run for the current package
    failed,                 \* those of them that exited non-zero
    installed_ver,          \* line 317, None when installed_pkgs lacks the package
    spec_file,              \* the lines of the file at spec_filename
    tmp_spec,               \* the lines written to spec_filename + ".tmp"
    head,                   \* the branch the working copy of each package is on
    seen,                   \* the remote versions the loop of line 284 visited
    lockseen                \* what lines 186-198 found for the current package

vars == <<args, marker, pc, idx, pid, is_still_running, version, tries, attempts, gnome_branch,
          left, newest_remote_version, new_version, cont, reason, outcome, effects,
          failed, installed_ver, spec_file, tmp_spec, head, seen, lockseen>>


(***************************************************************************)
(* Helpers of the actions                                                  *)
(***************************************************************************)
\* os.path.isdir("/proc/%i" % n): the processes that run
Running == {p \in Procs : pc[p] \notin {"off", "exit", "crash"}} \cup LivePids

\* print_info and print_debug report a skip, print_fail a failure
OutcomeOf(why) ==
    IF why = "done" THEN "Done"
    ELSE IF why \in {"live-lock", "no-update", "simulate"} THEN "Skipped"
    ELSE "Failed"

\* the locals and the files of the update (lines 314-385)
update == <<installed_ver, spec_file, tmp_spec>>

resolver == <<version, tries, attempts, gnome_branch, left, newest_remote_version, new_version,
              seen, update>>

\* the record of the commands of run_command
commands == <<effects, failed>>

lockvars == <<pid, is_still_running, lockseen>>

Goto(p, label) == pc' = [pc EXCEPT ![p] = label]

\* run_command (lines 44-51) ran the commands cmds, those of bad exited non-zero
RanAll(p, cmds, bad) ==
    /\ effects' = [effects EXCEPT ![p] = @ \cup cmds]
    /\ failed' = [failed EXCEPT ![p] = @ \cup bad]

Ran(p, cmd, ok) == RanAll(p, {cmd}, IF ok THEN {} ELSE {cmd})

\* an uncaught exception ends the invocation
Crash(p, exception) ==
    /\ Goto(p, "crash")
    /\ reason' = [reason EXCEPT ![p] = exception]

\* continue (of the loop of line 179): the package has its outcome
NextPackage(p, why) ==
    /\ outcome' = [outcome EXCEPT ![p] = OutcomeOf(why)]
    /\ reason' = [reason EXCEPT ![p] = why]
    /\ idx' = [idx EXCEPT ![p] = @ + 1]
    /\ Goto(p, "loop")
    /\ version' = [version EXCEPT ![p] = None]
    /\ tries' = [tries EXCEPT ![p] = RangeStart]
    /\ attempts' = [attempts EXCEPT ![p] = 0]
    /\ left' = [left EXCEPT ![p] = 0]
    /\ newest_remote_version' = [newest_remote_version EXCEPT ![p] = Zero]
    /\ new_version' = [new_version EXCEPT ![p] = None]
    /\ installed_ver' = [installed_ver EXCEPT ![p] = None]
    /\ spec_file' = [spec_file EXCEPT ![p] = <<>>]
    /\ tmp_spec' = [tmp_spec EXCEPT ![p] = <<>>]
    /\ UNCHANGED <<gnome_branch, seen>>

\* unlock_file(lock_filename); continue
Leave(p, why) ==
    /\ Goto(p, "unlock_exists")
    /\ reason' = [reason EXCEPT ![p] = why]
    /\ cont' = [cont EXCEPT ![p] = "next"]

\* a stage that only runs a command and goes on, or leaves
Stage(p, cmd, ok, next, why) ==
    /\ Ran(p, cmd, ok)
    /\ IF ok THEN Goto(p, next) /\ UNCHANGED <<reason, cont>> ELSE Leave(p, why)
    /\ UNCHANGED <<args, head, marker, idx, lockvars, resolver, outcome>>

(***************************************************************************)
(* main(): the loop over the packages and the lock (lines 179-206)         *)
(***************************************************************************)
\* line 179: for module, pkg, release_version in modules
LoopHead(p, W) ==
    /\ pc[p] = "loop"
    /\ IF idx[p] > W.modules
       THEN /\ Goto(p, "exit")
            /\ UNCHANGED <<commands, lockseen, reason, outcome, seen, gnome_branch>>
       ELSE /\ Goto(p, "lock_exists")
            /\ outcome' = [outcome EXCEPT ![p] = "none"]
            /\ effects' = [effects EXCEPT ![p] = {}]
            /\ failed' = [failed EXCEPT ![p] = {}]
            /\ lockseen' = [lockseen EXCEPT ![p] = "none"]
            /\ reason' = [reason EXCEPT ![p] = "none"]
            /\ seen' = [seen EXCEPT ![p] = {}]
            /\ gnome_branch' = [gnome_branch EXCEPT ![p] = <<>>]
    /\ UNCHANGED <<args, head, marker, idx, pid, is_still_running, version, tries, attempts,
                   left, newest_remote_version, new_version, cont, update>>

\* line 186: if os.path.exists(lock_filename); line 188
LockExists(p) ==
    /\ pc[p] = "lock_exists"
    /\ IF marker[idx[p]] # NoFile
       THEN /\ Goto(p, "lock_read")
            /\ is_still_running' = [is_still_running EXCEPT ![p] = FALSE]
            /\ UNCHANGED lockseen
       ELSE /\ Goto(p, "lock_create")
            /\ lockseen' = [lockseen EXCEPT ![p] = "absent"]
            /\ UNCHANGED is_still_running
    /\ UNCHANGED <<args, head, marker, idx, pid, resolver, cont, reason, outcome, commands>>

\* lines 189-191, 194-196: open, read, int(); the file may be gone by now
LockRead(p) ==
    /\ pc[p] = "lock_read"
    /\ IF marker[idx[p]] = NoFile
       THEN /\ Crash(p, "FileNotFoundError")
            /\ UNCHANGED <<pid, lockseen>>
       ELSE IF ParseInt(marker[idx[p]]) = <<>>
       THEN /\ Goto(p, "lock_decide")
            /\ lockseen' = [lockseen EXCEPT ![p] = "garbage"]
            /\ UNCHANGED <<pid, reason>>
       ELSE /\ Goto(p, "lock_isdir")
            /\ pid' = [pid EXCEPT ![p] = ParseInt(marker[idx[p]])]
            /\ UNCHANGED <<lockseen, reason>>
    /\ UNCHANGED <<args, head, marker, idx, is_still_running, resolver, cont, outcome, commands>>

\* LockIsDir with every recorded owner taken to run
LockIsDirAnyOwner(p) ==
    /\ pc[p] = "lock_isdir"
    /\ is_still_running' = [is_still_running EXCEPT ![p] = TRUE]
    /\ lockseen' = [lockseen EXCEPT ![p] = IF pid[p][1] \in Running THEN "live" ELSE "stale"]
    /\ Goto(p, "lock_decide")
    /\ UNCHANGED <<args, head, marker, idx, pid, resolver, cont, reason, outcome, commands>>

\* lines 192-193: if os.path.isdir("/proc/%i" % pid)
LockIsDir(p) ==
    /\ pc[p] = "lock_isdir"
    /\ is_still_running' = [is_still_running EXCEPT ![p] = pid[p][1] \in Running]
    /\ lockseen' = [lockseen EXCEPT ![p] = IF pid[p][1] \in Running THEN "live" ELSE "stale"]
    /\ Goto(p, "lock_decide")
    /\ UNCHANGED <<args, head, marker, idx, pid, resolver, cont, reason, outcome, commands>>

\* LockDecide with is_still_running unread
LockDecideIgnoresOwner(p) ==
    /\ pc[p] = "lock_decide"
    /\ IF pid[p] = <<>>
       THEN Crash(p, "UnboundLocalError")
       ELSE Goto(p, "lock_create") /\ UNCHANGED reason
    /\ UNCHANGED <<args, head, marker, idx, lockvars, resolver, cont, outcome, commands>>

\* lines 198-202: both messages format the local pid
LockDecide(p) ==
    /\ pc[p] = "lock_decide"
    /\ IF is_still_running[p]
       THEN NextPackage(p, "live-lock")
       ELSE IF pid[p] = <<>>
       THEN /\ Crash(p, "UnboundLocalError")
            /\ UNCHANGED <<outcome, idx, resolver>>
       ELSE /\ Goto(p, "lock_create")
            /\ UNCHANGED <<outcome, idx, resolver, reason>>
    /\ UNCHANGED <<args, head, marker, lockvars, cont, commands>>

\* line 205: open(lock_filename, 'w') creates or truncates the file
LockCreate(p) ==
    /\ pc[p] = "lock_create"
    /\ marker' = [marker EXCEPT ![idx[p]] = Empty]
    /\ Goto(p, "lock_write")
    /\ UNCHANGED <<args, head, idx, lockvars, resolver, cont, reason, outcome, commands>>

\* line 206: f.write("%s" % os.getpid()), flushed when the file is closed
LockWrite(p) ==
    /\ pc[p] = "lock_write"
    /\ marker' = [marker EXCEPT ![idx[p]] = PidText(p)]
    /\ Goto(p, "checkout")
    /\ UNCHANGED <<args, head, idx, lockvars, resolver, cont, reason, outcome, commands>>

(***************************************************************************)
(* unlock_file (lines 60-62) and the return to its caller                  *)
(***************************************************************************)
Return(p) ==
    IF cont[p] = "next"
    THEN NextPackage(p, reason[p])
    ELSE /\ Goto(p, "version_loop")
         /\ UNCHANGED <<outcome, idx, resolver, reason>>

\* line 61: if os.path.exists(lock_filename)
UnlockExists(p) ==
    /\ pc[p] = "unlock_exists"
    /\ IF marker[idx[p]] # NoFile
       THEN /\ Goto(p, "unlock_unlink")
            /\ UNCHANGED <<outcome, idx, resolver, reason>>
       ELSE Return(p)
    /\ UNCHANGED <<args, head, marker, lockvars, cont, commands>>

\* UnlockUnlink without the unlink
UnlockUnlinkKeepsFile(p) ==
    /\ pc[p] = "unlock_unlink"
    /\ Return(p)
    /\ UNCHANGED <<args, head, marker, lockvars, cont, commands>>

\* line 62: os.unlink(lock_filename); the file may be gone by now
UnlockUnlink(p) ==
    /\ pc[p] = "unlock_unlink"
    /\ IF marker[idx[p]] = NoFile
       THEN /\ Crash(p, "FileNotFoundError")
            /\ UNCHANGED <<marker, outcome, idx, resolver>>
       ELSE /\ marker' = [marker EXCEPT ![idx[p]] = NoFile]
            /\ Return(p)
    /\ UNCHANGED <<args, head, lockvars, cont, commands>>


(***************************************************************************)
(* main(): the working copy and the descriptor (lines 208-248)             *)
(***************************************************************************)
\* a step that only moves on
Skip(p, next) ==
    /\ Goto(p, next)
    /\ UNCHANGED <<args, head, marker, idx, lockvars, resolver, cont, reason, outcome, commands>>

\* a step that only leaves the package
Abort(p, why) ==
    /\ Leave(p, why)
    /\ UNCHANGED <<args, head, marker, idx, lockvars, resolver, outcome, commands>>

\* lines 210-222: fedpkg co, or git fetch in a working copy that exists
Checkout(p) ==
    /\ pc[p] = "checkout"
    /\ \E cmd \in {"fedpkg co", "git fetch"}, ok \in BOOLEAN :
          /\ Ran(p, cmd, ok)
          /\ IF ok THEN Goto(p, "switch_branch") /\ UNCHANGED <<reason, cont>>
             ELSE Leave(p, "checkout")
          /\ head' = IF cmd = "fedpkg co" /\ ok
                     THEN [head EXCEPT ![idx[p]] = "rawhide"] ELSE head
    /\ UNCHANGED <<args, marker, idx, lockvars, resolver, outcome>>

\* lines 73-82: the commands of switch_branch_and_reset, on the target branch
\* and on rawhide
SwitchCmds == <<"git clean", "git reset", "git checkout", "git reset origin">>

RawhideCmds == <<"rawhide git clean", "rawhide git reset", "rawhide git checkout",
                 "rawhide git reset origin">>

\* lines 72-86, when command bad exits non-zero (0: none does): the commands run
SwitchRan(cmds, bad) == {cmds[k] : k \in 1..(IF bad = 0 THEN Len(cmds) ELSE bad)}

SwitchFailed(cmds, bad) == IF bad = 0 THEN {} ELSE {cmds[bad]}

\* line 80: git checkout branch_name ran and exited zero, the working copy is
\* on that branch
CheckedOut(bad) == bad = 0 \/ bad > 3

\* lines 224-228: switch_branch_and_reset (lines 72-86)
SwitchBranch(p) ==
    /\ pc[p] = "switch_branch"
    /\ \E bad \in 0..Len(SwitchCmds) :
          /\ RanAll(p, SwitchRan(SwitchCmds, bad), SwitchFailed(SwitchCmds, bad))
          /\ IF bad = 0
             THEN Goto(p, "spec_exists") /\ UNCHANGED <<reason, cont>>
             ELSE Leave(p, "switch-branch")
          /\ head' = IF CheckedOut(bad)
                     THEN [head EXCEPT ![idx[p]] = args[p].fedora_branch] ELSE head
    /\ UNCHANGED <<args, marker, idx, lockvars, resolver, outcome>>

\* lines 234-237: if not os.path.exists(spec_filename)
SpecExists(p) ==
    /\ pc[p] = "spec_exists"
    /\ \E exists \in BOOLEAN :
          IF exists THEN Skip(p, "spec_parse") ELSE Abort(p, "no-spec")

\* lines 240-248: rpm.spec(spec_filename), version
SpecParse(p, W) ==
    /\ pc[p] = "spec_parse"
    /\ \/ Abort(p, "spec-parse")
       \/ \E v \in W.currents, layout \in W.layouts :
             /\ version' = [version EXCEPT ![p] = v]
             /\ spec_file' = [spec_file EXCEPT ![p] = Descriptor(layout, v)]
             /\ Goto(p, "fetch")
             /\ UNCHANGED <<args, head, marker, idx, lockvars, tries, attempts, gnome_branch, left,
                            newest_remote_version, new_version, seen, cont, reason,
                            outcome, commands, installed_ver, tmp_spec>>

(***************************************************************************)
(* main(): the remote metadata and the newest version (lines 250-302)      *)
(***************************************************************************)
\* lines 251-261: one turn of for i in range (1, 20), or its end
Fetch(p) ==
    /\ pc[p] = "fetch"
    /\ IF tries[p] < RangeStop
       THEN /\ attempts' = [attempts EXCEPT ![p] = @ + 1]
            /\ \E ok \in BOOLEAN :
                  IF ok
                  THEN /\ Goto(p, "load_json")
                       /\ UNCHANGED tries
                  ELSE /\ tries' = [tries EXCEPT ![p] = @ + 1]
                       /\ UNCHANGED pc
            /\ UNCHANGED <<reason, cont>>
       ELSE /\ Leave(p, "fetch")
            /\ UNCHANGED <<tries, attempts>>
    /\ UNCHANGED <<args, head, marker, idx, lockvars, version, gnome_branch, left,
                   newest_remote_version, new_version, seen, outcome, commands, update>>

\* lines 263-283: json.loads; the pattern of the branch; the list to visit
LoadJson(p, W) ==
    /\ pc[p] = "load_json"
    /\ \/ /\ Leave(p, "json")
          /\ UNCHANGED <<gnome_branch, left, tries, attempts>>
       \/ \E g \in W.patterns, n \in 0..W.remote :
             /\ gnome_branch' = [gnome_branch EXCEPT ![p] = g]
             /\ left' = [left EXCEPT ![p] = n]
             /\ tries' = [tries EXCEPT ![p] = RangeStart]
             /\ attempts' = [attempts EXCEPT ![p] = 0]
             /\ Goto(p, "version_loop")
             /\ UNCHANGED <<reason, cont>>
    /\ UNCHANGED <<args, head, marker, idx, lockvars, version, newest_remote_version,
                   new_version, seen, outcome, commands, update>>

\* Newer with the operands of the comparison swapped
NewerSwapped(remote_ver, newest) == LabelCompare(Tilde(newest), Tilde(remote_ver)) > 0

\* lines 294-295: is remote_ver newer than the newest so far; the code keeps
\* newest_remote_version_tilde, which is Tilde(newest_remote_version) throughout
Newer(remote_ver, newest) == LabelCompare(Tilde(remote_ver), Tilde(newest)) > 0

\* lines 284-297: one turn of for remote_ver in j[2][module], or its end
VersionLoop(p, W) ==
    /\ pc[p] = "version_loop"
    /\ IF left[p] = 0
       THEN /\ Goto(p, "check_newest")
            /\ UNCHANGED <<left, seen, newest_remote_version, cont>>
       ELSE \E remote_ver \in W.versions :
             /\ left' = [left EXCEPT ![p] = @ - 1]
             /\ seen' = [seen EXCEPT ![p] = @ \cup {remote_ver}]
             /\ IF ~VersionValid(remote_ver, gnome_branch[p])
                THEN /\ Goto(p, "unlock_exists")
                     /\ cont' = [cont EXCEPT ![p] = "loop"]
                     /\ UNCHANGED newest_remote_version
                ELSE /\ newest_remote_version' =
                          [newest_remote_version EXCEPT ![p] =
                              IF Newer(remote_ver, @) THEN remote_ver ELSE @]
                     /\ UNCHANGED <<pc, cont>>
    /\ UNCHANGED <<args, head, marker, idx, lockvars, version, tries, attempts, gnome_branch,
                   new_version, reason, outcome, commands, update>>

\* CheckNewest without the test of line 298
CheckNewestNeverFails(p) ==
    /\ pc[p] = "check_newest"
    /\ Goto(p, "compare")
    /\ seen' = [seen EXCEPT ![p] = {}]
    /\ gnome_branch' = [gnome_branch EXCEPT ![p] = <<>>]
    /\ UNCHANGED <<args, head, marker, idx, lockvars, version, tries, attempts, left,
                   newest_remote_version, new_version, reason, cont, outcome, commands,
                   update>>

\* lines 298-302: if newest_remote_version == '0'
CheckNewest(p) ==
    /\ pc[p] = "check_newest"
    /\ IF newest_remote_version[p] = Zero
       THEN /\ Leave(p, "no-match")
            /\ UNCHANGED <<seen, gnome_branch>>
       ELSE /\ Goto(p, "compare")
            /\ seen' = [seen EXCEPT ![p] = {}]
            /\ gnome_branch' = [gnome_branch EXCEPT ![p] = <<>>]
            /\ UNCHANGED <<reason, cont>>
    /\ UNCHANGED <<args, head, marker, idx, lockvars, version, tries, attempts, left,
                   newest_remote_version, new_version, outcome, commands, update>>


(***************************************************************************)
(* main(): is an update required (lines 305-342)                           *)
(***************************************************************************)
\* NewVersion with an equal version taken for a newer one
NewVersionOrEqual(newest, current) ==
    IF LabelCompare(Tilde(newest), current) >= 0 THEN newest ELSE None

\* lines 306-312: new_version, None when the newest is not newer than the descriptor
NewVersion(newest, current) ==
    IF LabelCompare(Tilde(newest), current) > 0 THEN newest ELSE None

CompareSpec(p) ==
    /\ pc[p] = "compare"
    /\ new_version' = [new_version EXCEPT ![p] =
                          NewVersion(newest_remote_version[p], version[p])]
    /\ Goto(p, "check_installed")
    /\ UNCHANGED <<args, head, marker, idx, lockvars, version, tries, attempts, gnome_branch,
                   left, newest_remote_version, seen, cont, reason, outcome, commands,
                   update>>

\* lines 318-323: the installed version is newer than the newest remote version
InstalledNewer(installed, newest) ==
    /\ installed # newest
    /\ LabelCompare(installed, Tilde(newest)) > 0

\* lines 315-327: installed_pkgs holds the package with a version, or not (None)
CheckInstalled(p, W) ==
    /\ pc[p] = "check_installed"
    /\ \E found \in IF args[p].check_installed THEN W.installed \cup {None} ELSE {None} :
          /\ installed_ver' = [installed_ver EXCEPT ![p] = found]
          /\ IF found # None /\ InstalledNewer(found, newest_remote_version[p])
             THEN Leave(p, "installed-newer")
             ELSE Goto(p, "nothing_to_do") /\ UNCHANGED <<reason, cont>>
    /\ UNCHANGED <<args, head, marker, idx, lockvars, version, tries, attempts, gnome_branch, left,
                   newest_remote_version, new_version, seen, spec_file, tmp_spec, outcome,
                   commands>>

\* lines 330-333: if new_version == None
NothingToDo(p) ==
    /\ pc[p] = "nothing_to_do"
    /\ IF new_version[p] = None THEN Abort(p, "no-update") ELSE Skip(p, "major")

\* line 339: new_version.split('.')[0] != version_dot.split('.')[0]
MajorDiffers(new, current) == Split(new, ".")[1] # Split(Dot(current), ".")[1]

\* MajorGuard with the guard taken to be relaxed
MajorGuardRelaxed(p) ==
    /\ pc[p] = "major"
    /\ Skip(p, "tarball")

\* lines 336-342
MajorGuard(p) ==
    /\ pc[p] = "major"
    /\ IF ~args[p].relax_version_checks /\ MajorDiffers(new_version[p], version[p])
       THEN Abort(p, "major-version")
       ELSE Skip(p, "tarball")

(***************************************************************************)
(* main(): the update (lines 348-487)                                      *)
(***************************************************************************)
\* lines 350-362: the tar.xz of the new version, downloaded unless it is there
Tarball(p) ==
    /\ pc[p] = "tarball"
    /\ \/ /\ Crash(p, "KeyError")
          /\ UNCHANGED <<args, head, marker, idx, lockvars, resolver, cont, outcome, commands>>
       \/ Skip(p, "rewrite")
       \/ \E ok \in BOOLEAN :
             Stage(p, "download", ok,
                   IF args[p].simulate THEN "rewrite" ELSE "new_sources", "tarball")

\* lines 363-369: fedpkg new-sources
NewSources(p) ==
    /\ pc[p] = "new_sources"
    /\ \E ok \in BOOLEAN : Stage(p, "new-sources", ok, "rewrite", "new-sources")

\* lines 373-374: the descriptor opened to read, the temporary file to write
Rewrite(p) ==
    /\ pc[p] = "rewrite"
    /\ RanAll(p, {"rewrite"}, {})
    /\ tmp_spec' = [tmp_spec EXCEPT ![p] = <<>>]
    /\ Goto(p, "rewrite_line")
    /\ UNCHANGED <<args, head, marker, idx, lockvars, version, tries, attempts, gnome_branch, left,
                   newest_remote_version, new_version, seen, installed_ver, spec_file,
                   cont, reason, outcome>>

\* WriteLine with the lines written to spec_filename itself
WriteLineInPlace(p) ==
    /\ pc[p] = "rewrite_line"
    /\ IF Len(tmp_spec[p]) = Len(spec_file[p])
       THEN Goto(p, "rename") /\ UNCHANGED <<tmp_spec, spec_file, reason>>
       ELSE LET line == spec_file[p][Len(tmp_spec[p]) + 1]
            IN IF LineRaises(line, Dot(version[p]), new_version[p])
               THEN Crash(p, "IndexError") /\ UNCHANGED <<tmp_spec, spec_file>>
               ELSE \/ Crash(p, "OSError") /\ UNCHANGED <<tmp_spec, spec_file>>
                    \/ /\ tmp_spec' = [tmp_spec EXCEPT ![p] =
                              Append(@, RewriteLine(line, Dot(version[p]), new_version[p]))]
                       /\ spec_file' = [spec_file EXCEPT ![p][Len(tmp_spec[p]) + 1] =
                              RewriteLine(line, Dot(version[p]), new_version[p])]
                       /\ UNCHANGED <<pc, reason>>
    /\ UNCHANGED <<args, head, marker, idx, lockvars, version, tries, attempts, gnome_branch, left,
                   newest_remote_version, new_version, seen, installed_ver,
                   cont, outcome, commands>>

\* lines 375-384: one turn of for line in f, or its end; majorminor may raise
\* IndexError and tmp_spec.write OSError
WriteLine(p) ==
    /\ pc[p] = "rewrite_line"
    /\ IF Len(tmp_spec[p]) = Len(spec_file[p])
       THEN Goto(p, "rename") /\ UNCHANGED <<tmp_spec, reason>>
       ELSE LET line == spec_file[p][Len(tmp_spec[p]) + 1]
            IN IF LineRaises(line, Dot(version[p]), new_version[p])
               THEN Crash(p, "IndexError") /\ UNCHANGED tmp_spec
               ELSE \/ Crash(p, "OSError") /\ UNCHANGED tmp_spec
                    \/ /\ tmp_spec' = [tmp_spec EXCEPT ![p] =
                              Append(@, RewriteLine(line, Dot(version[p]), new_version[p]))]
                       /\ UNCHANGED <<pc, reason>>
    /\ UNCHANGED <<args, head, marker, idx, lockvars, version, tries, attempts, gnome_branch, left,
                   newest_remote_version, new_version, seen, installed_ver, spec_file,
                   cont, outcome, commands>>

\* line 385: os.rename(spec_filename + ".tmp", spec_filename)
Rename(p) ==
    /\ pc[p] = "rename"
    /\ spec_file' = [spec_file EXCEPT ![p] = tmp_spec[p]]
    /\ tmp_spec' = [tmp_spec EXCEPT ![p] = <<>>]
    /\ RanAll(p, {"rename"}, {})
    /\ Goto(p, "bump")
    /\ UNCHANGED <<args, head, marker, idx, lockvars, version, tries, attempts, gnome_branch, left,
                   newest_remote_version, new_version, seen, installed_ver,
                   cont, reason, outcome>>

\* lines 388-390: rpmdev-bumpspec, its exit status unread
Bump(p) ==
    /\ pc[p] = "bump"
    /\ \E ok \in BOOLEAN : Ran(p, "bumpspec", ok)
    /\ Goto(p, "prep")
    /\ UNCHANGED <<args, head, marker, idx, lockvars, resolver, cont, reason, outcome>>

\* lines 393-397: fedpkg prep
Prep(p) ==
    /\ pc[p] = "prep"
    /\ \E ok \in BOOLEAN : Stage(p, "prep", ok, "mockbuild", "prep")

\* lines 399-404: fedpkg mockbuild; it leaves packages under results_<pkg>
\* ("results"), or none
Mockbuild(p) ==
    /\ pc[p] = "mockbuild"
    /\ IF args[p].no_mockbuild
       THEN Skip(p, "commit")
       ELSE \E ok, built \in BOOLEAN :
               /\ RanAll(p, {"mockbuild"} \cup (IF built THEN {"results"} ELSE {}),
                         IF ok THEN {} ELSE {"mockbuild"})
               /\ IF ok
                  THEN Goto(p, "mock_results") /\ UNCHANGED <<reason, cont>>
                  ELSE Leave(p, "mockbuild")
               /\ UNCHANGED <<args, head, marker, idx, lockvars, resolver, outcome>>

\* MockResults with the result of glob.glob unread
MockResultsUnread(p) ==
    /\ pc[p] = "mock_results"
    /\ Skip(p, "commit")

\* lines 406-410: if not glob.glob(resultsglob)
MockResults(p) ==
    /\ pc[p] = "mock_results"
    /\ IF "results" \in effects[p] THEN Skip(p, "commit") ELSE Abort(p, "mock-results")

\* lines 413-417: git commit
Commit(p) ==
    /\ pc[p] = "commit"
    /\ \E ok \in BOOLEAN : Stage(p, "commit", ok, "push", "commit")

\* Push with args.simulate unread
PushSimulated(p) ==
    /\ pc[p] = "push"
    /\ \E ok \in BOOLEAN : Stage(p, "push", ok, "rawhide", "push")

\* lines 420-429: git push, unless simulating
Push(p) ==
    /\ pc[p] = "push"
    /\ IF args[p].simulate
       THEN Abort(p, "simulate")
       ELSE \E ok \in BOOLEAN : Stage(p, "push", ok, "rawhide", "push")

\* lines 88-114: the commands sync_to_rawhide_branch runs when command bad of
\* the reset exits non-zero (0: none) and the merge, the cherry-pick, the push
\* and the build exit zero or not
SyncRan(bad, ff, pick, push, build) ==
    SwitchRan(RawhideCmds, bad) \cup
    (IF bad # 0 THEN {}
     ELSE {"merge"} \cup
          (IF ff THEN {} ELSE {"cherry-pick"}) \cup
          (IF ~ff /\ ~pick THEN {"cherry-pick abort"}
           ELSE {"rawhide push"} \cup (IF push THEN {"rawhide build"} ELSE {})))

\* those of them that exited non-zero
SyncFailed(bad, ff, pick, push, build) ==
    SwitchFailed(RawhideCmds, bad) \cup
    {c \in SyncRan(bad, ff, pick, push, build) :
        \/ c = "merge" /\ ~ff
        \/ c = "cherry-pick" /\ ~pick
        \/ c = "rawhide push" /\ ~push
        \/ c = "rawhide build" /\ ~build}

\* the branch the working copy is on after line 432 and, when it ran, line 434:
\* the git checkout of lines 80 and 434 switches the branch when it exits zero
SyncHead(p, bad, ranback, back) ==
    [head EXCEPT ![idx[p]] = IF ranback /\ back THEN args[p].fedora_branch
                             ELSE IF CheckedOut(bad) THEN "rawhide"
                             ELSE @]

\* SyncRawhide with a failed propagation failing the package
SyncRawhideAborts(p) ==
    /\ pc[p] = "rawhide"
    /\ IF ~args[p].no_rawhide_sync /\ args[p].fedora_branch # "rawhide"
       THEN /\ \E bad \in 0..Len(RawhideCmds), ff, pick, push, build, back \in BOOLEAN :
                  IF SyncFailed(bad, ff, pick, push, build) = {}
                  THEN /\ RanAll(p, SyncRan(bad, ff, pick, push, build) \cup {"checkout back"},
                                 IF back THEN {} ELSE {"checkout back"})
                       /\ head' = SyncHead(p, bad, TRUE, back)
                       /\ Goto(p, "release_tag")
                       /\ UNCHANGED <<reason, cont>>
                  ELSE /\ RanAll(p, SyncRan(bad, ff, pick, push, build),
                                 SyncFailed(bad, ff, pick, push, build))
                       /\ head' = SyncHead(p, bad, FALSE, back)
                       /\ Leave(p, "rawhide")
            /\ UNCHANGED <<args, marker, idx, lockvars, resolver, outcome>>
       ELSE Skip(p, "release_tag")

\* lines 432-434: sync_to_rawhide_branch (lines 88-114), which returns nothing,
\* and the git checkout of the target branch, its exit status unread
SyncRawhide(p) ==
    /\ pc[p] = "rawhide"
    /\ IF ~args[p].no_rawhide_sync /\ args[p].fedora_branch # "rawhide"
       THEN /\ \E bad \in 0..Len(RawhideCmds), ff, pick, push, build, back \in BOOLEAN :
                  /\ RanAll(p, SyncRan(bad, ff, pick, push, build) \cup {"checkout back"},
                            SyncFailed(bad, ff, pick, push, build)
                            \cup (IF back THEN {} ELSE {"checkout back"}))
                  /\ head' = SyncHead(p, bad, TRUE, back)
            /\ Goto(p, "release_tag")
            /\ UNCHANGED <<args, marker, idx, lockvars, resolver, cont, reason, outcome>>
       ELSE Skip(p, "release_tag")

\* print_fail of the module log, called with n arguments: it reports them and
\* returns
PrintFailReturns(n) == n >= 1

\* lines 437-450: pkg_release_tag; line 448 calls print_fail with two arguments
ReleaseTag(p) ==
    /\ pc[p] = "release_tag"
    /\ IF args[p].fedora_branch \in KnownBranches
       THEN Skip(p, "build")
       ELSE IF PrintFailReturns(2)
       THEN Abort(p, "release-tag")
       ELSE /\ Crash(p, "TypeError")
            /\ UNCHANGED <<args, head, marker, idx, lockvars, resolver, cont, outcome, commands>>

\* Build with the exit status of fedpkg build unread
BuildUnread(p) ==
    /\ pc[p] = "build"
    /\ IF args[p].no_build
       THEN Skip(p, "done")
       ELSE /\ \E ok \in BOOLEAN : Ran(p, "build", ok)
            /\ Goto(p, "done")
            /\ UNCHANGED <<args, head, marker, idx, lockvars, resolver, cont, reason, outcome>>

\* lines 453-465: fedpkg build
Build(p) ==
    /\ pc[p] = "build"
    /\ IF args[p].no_build
       THEN Skip(p, "done")
       ELSE \E ok \in BOOLEAN : Stage(p, "build", ok, "done", "build")

\* lines 468-487: pkg_branch_name (the branch is a known one here), Done, unlock
Done(p) ==
    /\ pc[p] = "done"
    /\ Abort(p, "done")

(***************************************************************************)
(* The specifications                                                      *)
(***************************************************************************)
PipelineStep(p, W) ==
    \/ LoopHead(p, W) \/ LockExists(p) \/ LockRead(p) \/ LockIsDir(p) \/ LockDecide(p)
    \/ LockCreate(p) \/ LockWrite(p) \/ UnlockExists(p) \/ UnlockUnlink(p)
    \/ Checkout(p) \/ SwitchBranch(p) \/ SpecExists(p) \/ SpecParse(p, W)
    \/ Fetch(p) \/ LoadJson(p, W) \/ VersionLoop(p, W) \/ CheckNewest(p)
    \/ CompareSpec(p) \/ CheckInstalled(p, W) \/ NothingToDo(p) \/ MajorGuard(p)
    \/ Tarball(p) \/ NewSources(p) \/ Rewrite(p) \/ WriteLine(p) \/ Rename(p)
    \/ Bump(p) \/ Prep(p) \/ Mockbuild(p) \/ MockResults(p) \/ Commit(p) \/ Push(p)
    \/ SyncRawhide(p) \/ ReleaseTag(p) \/ Build(p) \/ Done(p)

\* the state when the invocations W.procs have parsed their arguments
InitOf(W) ==
    /\ \E f \in [W.procs -> W.flags] :
          args = [p \in Procs |-> IF p \in W.procs THEN f[p] ELSE DefaultFlags]
    /\ \E m \in [1..W.modules -> W.markers] :
          marker = [k \in Pkgs |-> IF k <= W.modules THEN m[k] ELSE NoFile]
    /\ pc = [p \in Procs |-> IF p \in W.procs THEN "loop" ELSE "off"]
    /\ idx = [p \in Procs |-> 1]
    /\ pid = [p \in Procs |-> <<>>]
    /\ is_still_running = [p \in Procs |-> FALSE]
    /\ version = [p \in Procs |-> None]
    /\ tries = [p \in Procs |-> RangeStart]
    /\ attempts = [p \in Procs |-> 0]
    /\ gnome_branch = [p \in Procs |-> <<>>]
    /\ left = [p \in Procs |-> 0]
    /\ newest_remote_version = [p \in Procs |-> Zero]
    /\ new_version = [p \in Procs |-> None]
    /\ cont = [p \in Procs |-> "next"]
    /\ reason = [p \in Procs |-> "none"]
    /\ outcome = [p \in Procs |-> "none"]
    /\ effects = [p \in Procs |-> {}]
    /\ failed = [p \in Procs |-> {}]
    /\ installed_ver = [p \in Procs |-> None]
    /\ spec_file = [p \in Procs |-> <<>>]
    /\ tmp_spec = [p \in Procs |-> <<>>]
    /\ head = [k \in Pkgs |-> "rawhide"]
    /\ seen = [p \in Procs |-> {}]
    /\ lockseen = [p \in Procs |-> "none"]

\* one invocation; the version data in full, the options the resolver reads
Resolving ==
    [procs |-> {1},
     modules |-> NPkgs,
     remote |-> MaxRemote,
     flags |-> {f \in Flags : /\ f.fedora_branch = "rawhide" /\ ~f.simulate /\ ~f.no_build
                              /\ ~f.no_mockbuild /\ ~f.no_rawhide_sync},
     markers |-> {NoFile, PidText(3)},
     currents |-> {V3_44_0, V3_44_1, Tilde(V3_44_rc)},
     versions |-> {V3_44_0, V3_44_1, V3_45_0, V3_44_rc, V4_0_0, V0_rc},
     patterns |-> {G3_44, G3_46, G3_44or4, GAny},
     installed |-> {V3_44_1, V3_45_0},
     layouts |-> {PlainLayout}]

\* one invocation; every combination of the options, the marker of each
\* package left by a process that is gone
Optioned ==
    [procs |-> {1},
     modules |-> NPkgs,
     remote |-> 1,
     flags |-> Flags,
     markers |-> {PidText(3)},
     currents |-> {V3_44_0, V3_44_1},
     versions |-> {V3_44_1, V4_0_0},
     patterns |-> {G3_44, GAny},
     installed |-> {V3_45_0},
     layouts |-> {PlainLayout}]

\* two invocations at once, each of one and the same package (--buildone)
Concurrent ==
    [procs |-> {1, 2},
     modules |-> 1,
     remote |-> 1,
     flags |-> {DefaultFlags},
     markers |-> {NoFile, PidText(3)},
     currents |-> {V3_44_0},
     versions |-> {V3_44_1, V3_45_0},
     patterns |-> {G3_44},
     installed |-> {},
     layouts |-> {PlainLayout}]

\* one invocation; the marker of each package absent, empty, of a process
\* that is gone or of one that runs
Locking ==
    [procs |-> {1},
     modules |-> NPkgs,
     remote |-> 2,
     flags |-> {DefaultFlags},
     markers |-> {NoFile, Empty, PidText(3), PidText(4)},
     currents |-> {V3_44_0},
     versions |-> {V3_44_1, V3_45_0},
     patterns |-> {G3_44},
     installed |-> {},
     layouts |-> {PlainLayout}]

\* one invocation, one package; the descriptor in every layout
Rewriting ==
    [procs |-> {1},
     modules |-> 1,
     remote |-> 1,
     flags |-> {f \in Flags : /\ f.fedora_branch = "f42" /\ ~f.simulate /\ ~f.check_installed
                              /\ ~f.no_build /\ ~f.no_mockbuild /\ ~f.no_rawhide_sync},
     markers |-> {NoFile, PidText(3)},
     currents |-> {V3_44_0, Tilde(V3_44_rc), V45},
     versions |-> {V3_44_1, V3_45_0, V4_0_0, V45_1},
     patterns |-> {GAny},
     installed |-> {},
     layouts |-> Layouts]

Init == InitOf(Resolving)

Next == \E p \in Procs : PipelineStep(p, Resolving)

Spec == Init /\ [][Next]_vars

InitOptions == InitOf(Optioned)

NextOptions == \E p \in Procs : PipelineStep(p, Optioned)

SpecOptions == InitOptions /\ [][NextOptions]_vars

InitConcurrent == InitOf(Concurrent)

NextConcurrent == \E p \in Procs : PipelineStep(p, Concurrent)

SpecConcurrent == InitConcurrent /\ [][NextConcurrent]_vars

InitLock == InitOf(Locking)

NextLock == \E p \in Procs : PipelineStep(p, Locking)

SpecLock == InitLock /\ [][NextLock]_vars

InitRewrite == InitOf(Rewriting)

NextRewrite == \E p \in Procs : PipelineStep(p, Rewriting)

SpecRewrite == InitRewrite /\ [][NextRewrite]_vars


(***************************************************************************)
(* The lock (C1-C6)                                                        *)
(***************************************************************************)
\* the stages between the write of the marker (line 206) and the unlock_file
\* that ends the package
Stages ==
    {"checkout", "switch_branch", "spec_exists", "spec_parse", "fetch", "load_json",
     "version_loop", "check_newest", "compare", "check_installed", "nothing_to_do",
     "major", "tarball", "new_sources", "rewrite", "rewrite_line", "rename", "bump",
     "prep", "mockbuild", "mock_results", "commit", "push", "rawhide", "release_tag",
     "build", "done"}

\* p is past the lock acquisition and before the terminal outcome of its package
InPipeline(p) ==
    \/ pc[p] \in Stages
    \/ pc[p] \in {"unlock_exists", "unlock_unlink"} /\ cont[p] = "loop"

\* p has left a package and not begun the next
Left(p) == pc[p] \in {"loop", "exit"} /\ outcome[p] # "none"

\* C1: at most one invocation at a time is past the lock acquisition and before
\* the terminal outcome of one and the same package
C1_MutualExclusion ==
    \A p, q \in Procs : (p # q /\ InPipeline(p) /\ InPipeline(q)) => idx[p] # idx[q]

\* C2: from the write of the marker to the terminal outcome of the package the
\* marker exists and holds the identifier of the run
C2_LockHeld ==
    \A p \in Procs : InPipeline(p) => marker[idx[p]] = PidText(p)

\* C3: a run that wrote the marker of a package leaves the package, on every
\* exit path, with the marker absent
C3_LockReleased ==
    \A p \in Procs :
        (Left(p) /\ reason[p] # "live-lock") => marker[idx[p] - 1] = NoFile

C3_Witness ==
    /\ Left(1) /\ reason[1] = "release-tag" /\ "push" \in effects[1]
    /\ lockseen[1] = "stale"
    /\ marker[idx[1] - 1] = NoFile

\* C4: a marker of a running process makes the run skip the package: the
\* marker keeps its content and no command runs for the package
C4_LiveSkip ==
    \A p \in Procs :
        lockseen[p] = "live" =>
            /\ \/ pc[p] = "lock_decide" /\ marker[idx[p]] = PidText(pid[p][1])
               \/ /\ Left(p) /\ reason[p] = "live-lock" /\ outcome[p] = "Skipped"
                  /\ marker[idx[p] - 1] = PidText(pid[p][1])
            /\ effects[p] = {}

C4_Witness ==
    /\ Left(1) /\ lockseen[1] = "live" /\ idx[1] = 2 /\ pc[1] = "loop"
    /\ marker[1] = PidText(4)

\* C5: a marker of a process that does not run is overwritten with the
\* identifier of the run, which goes on into the pipeline
C5_StaleReclaimed ==
    \A p \in Procs :
        lockseen[p] = "stale" =>
            /\ \/ pc[p] \in {"lock_decide", "lock_create", "lock_write"}
               \/ pc[p] = "checkout" /\ marker[idx[p]] = PidText(p)
               \/ effects[p] \cap {"fedpkg co", "git fetch"} # {}
            /\ reason[p] \notin {"live-lock", "UnboundLocalError"}

C5_Witness ==
    /\ lockseen[1] = "stale" /\ pc[1] = "switch_branch" /\ marker[idx[1]] = PidText(1)
    /\ pid[1] = <<3>>

\* C6: a marker that is no integer is reclaimed like a stale one, whichever
\* package of the list it belongs to
C6_GarbageReclaimed ==
    \A p \in Procs : lockseen[p] = "garbage" => pc[p] # "crash"

(***************************************************************************)
(* The resolver (C7-C10)                                                   *)
(***************************************************************************)
\* C7: the run gives up the fetch after 20 failed attempts, not fewer
C7_TwentyAttempts ==
    \A p \in Procs : reason[p] = "fetch" => attempts[p] = 20

\* the published versions that the pattern accepts, by their tilde form
AcceptedTilde(p) == {v \in seen[p] : VersionValid(Tilde(v), gnome_branch[p])}

\* the published versions that the pattern accepts as published and that
\* compare greater than the '0' the loop starts from
Accepted(p) ==
    {v \in seen[p] : VersionValid(v, gnome_branch[p]) /\ LabelCompare(Tilde(v), Zero) > 0}

\* the loop of line 284 selected the greatest of the set, or nothing from an empty set
SelectedFrom(p, set) ==
    IF set = {}
    THEN newest_remote_version[p] = Zero
    ELSE /\ newest_remote_version[p] \in set
         /\ \A v \in set : LabelCompare(Tilde(v), Tilde(newest_remote_version[p])) <= 0

\* C8 as claimed: the selected version is the greatest of the published versions
\* whose tilde form matches an alternative of the pattern
C8_NewestOfTildeMatches ==
    \A p \in Procs : pc[p] = "check_newest" => SelectedFrom(p, AcceptedTilde(p))

\* C8 amended: the selected version is the greatest of the published versions
\* that match an alternative of the pattern as published and exceed '0'
C8_NewestAcceptable ==
    \A p \in Procs : pc[p] = "check_newest" => SelectedFrom(p, Accepted(p))

C8_Witness ==
    /\ pc[1] = "check_newest" /\ version[1] = V3_44_0 /\ gnome_branch[1] = G3_44
    /\ seen[1] = {V3_44_0, V3_44_1, V3_45_0}
    /\ newest_remote_version[1] = V3_44_1


\* no published version matches an alternative of the pattern
NoneMatches(p) == \A v \in seen[p] : ~VersionValid(v, gnome_branch[p])

Unlocking(p) == pc[p] \in {"unlock_exists", "unlock_unlink"} /\ cont[p] = "next"

\* the run of p that found no match: nothing fetched or changed, a failure at
\* its end, and no marker then
NoMatchRun(p) ==
    reason[p] = "no-match" =>
        /\ effects[p] \cap {"download", "new-sources", "rewrite", "commit", "push"} = {}
        /\ Unlocking(p) \/ Left(p)
        /\ Left(p) => outcome[p] = "Failed" /\ marker[idx[p] - 1] = NoFile

\* the step of p from line 298 when no published version matches
NoMatchStep(p) ==
    (pc[p] = "check_newest" /\ NoneMatches(p) /\ pc'[p] # pc[p]) =>
        (reason'[p] = "no-match" /\ Unlocking(p)')

\* C9: when no published version matches the pattern the run fails for the
\* package, with no download, rewrite, commit or push, and leaves no marker
C9_NoMatchFails ==
    /\ [](\A p \in Procs : NoMatchRun(p))
    /\ [][\A p \in Procs : NoMatchStep(p)]_vars

C9_Witness ==
    /\ Left(1) /\ reason[1] = "no-match" /\ outcome[1] = "Failed"
    /\ gnome_branch[1] = G3_46 /\ seen[1] = {V3_44_0, V3_44_1, V3_45_0}
    /\ marker[idx[1] - 1] = NoFile

\* p has selected a newest remote version, and it does not exceed the version
\* of the descriptor
NoUpdate(p) ==
    /\ newest_remote_version[p] # Zero
    /\ pc[p] \in Stages \ {"version_loop", "check_newest"} \/ Unlocking(p)
    /\ LabelCompare(Tilde(newest_remote_version[p]), version[p]) <= 0

\* with no update the run changes nothing and is past line 333 only to unlock
NoUpdateRun(p, reasons) ==
    NoUpdate(p) =>
        /\ effects[p] \cap {"download", "new-sources", "rewrite", "bumpspec", "commit", "push"} = {}
        /\ pc[p] \in {"compare", "check_installed", "nothing_to_do"} \/ Unlocking(p)
        /\ Unlocking(p) => reason[p] \in reasons
        /\ reason[p] = "installed-newer" => args[p].check_installed

\* C10 as claimed: with no update, under every combination of the options, the
\* run is the no-update skip, with no rewrite, bump, commit or push
C10_NoUpdateSkips ==
    \A p \in Procs : NoUpdateRun(p, {"no-update"})

\* C10 amended: with no update the run makes no rewrite, bump, commit or push,
\* and it is the no-update skip or, under check-installed, the failure of an
\* installed version newer than the newest remote version
C10_NoUpdateChangesNothing ==
    \A p \in Procs : NoUpdateRun(p, {"no-update", "installed-newer"})

C10_Witness ==
    /\ Unlocking(1) /\ reason[1] = "no-update"
    /\ version[1] = V3_44_1 /\ newest_remote_version[1] = V3_44_1
    /\ args[1].check_installed /\ args[1].relax_version_checks /\ ~args[1].simulate

(***************************************************************************)
(* Is an update required (C11, C12)                                        *)
(***************************************************************************)
\* what an update of the package does
Updating == {"download", "new-sources", "rewrite", "bumpspec", "commit", "push", "build"}

\* the stages of lines 335-487
UpdateStages ==
    {"major", "tarball", "new_sources", "rewrite", "rewrite_line", "rename", "bump",
     "prep", "mockbuild", "mock_results", "commit", "push", "rawhide", "release_tag",
     "build", "done"}

\* C11: under check-installed, a package whose installed version equals the
\* newest acceptable remote version is skipped: no download, rewrite, commit,
\* push or remote build, also when that version exceeds the descriptor's
C11_InstalledCurrentSkips ==
    \A p \in Procs :
        (installed_ver[p] # None /\ installed_ver[p] = newest_remote_version[p]) =>
            /\ pc[p] \notin UpdateStages
            /\ effects[p] \cap Updating = {}

\* the update resolved for p changes the first component of the version
MajorJump(p) == new_version[p] # None /\ MajorDiffers(new_version[p], version[p])

\* a major jump with the guard on is never past the guard, and the run the
\* guard stopped has changed nothing and fails
MajorGuarded(p) ==
    /\ (MajorJump(p) /\ ~args[p].relax_version_checks) =>
          /\ pc[p] \in {"check_installed", "nothing_to_do", "major"} \/ Unlocking(p)
          /\ Unlocking(p) => reason[p] \in {"major-version", "installed-newer"}
    /\ reason[p] = "major-version" =>
          /\ ~args[p].relax_version_checks
          /\ effects[p] \cap Updating = {}
          /\ Unlocking(p) \/ (Left(p) /\ outcome[p] = "Failed")

\* the step of the guard on a major jump: to the failure when the guard is on,
\* on to the tarball and the rewrite when it is relaxed
MajorStep(p) ==
    (pc[p] = "major" /\ MajorJump(p) /\ pc'[p] # pc[p]) =>
        IF args[p].relax_version_checks
        THEN pc'[p] = "tarball"
        ELSE reason'[p] = "major-version" /\ Unlocking(p)'

\* C12: an update that changes the first component of the version fails the
\* package before any download, upload, rewrite, commit or push when
\* relax-version-checks is off, and goes on to the update when it is on
C12_MajorGuard ==
    /\ [](\A p \in Procs : MajorGuarded(p))
    /\ [][\A p \in Procs : MajorStep(p)]_vars

C12_Witness ==
    /\ Left(1) /\ reason[1] = "major-version" /\ outcome[1] = "Failed"
    /\ ~args[1].relax_version_checks /\ effects[1] \cap Updating = {}
    /\ marker[idx[1] - 1] = NoFile

\* the relaxed guard let a major jump through to the rewrite
C12_RelaxedProceeds ==
    /\ pc[1] = "rename" /\ MajorJump(1) /\ args[1].relax_version_checks
    /\ version[1] = V3_44_0 /\ new_version[1] = V4_0_0

(***************************************************************************)
(* The external commands (C13, C14)                                        *)
(***************************************************************************)
\* the commands of the primary pipeline
Primary ==
    {"fedpkg co", "git fetch", "git clean", "git reset", "git checkout",
     "git reset origin", "new-sources", "bumpspec", "prep", "mockbuild", "commit",
     "push", "checkout back", "build"}

\* p has left the package as failed, or is about to
Failing(p) == Unlocking(p) \/ (Left(p) /\ outcome[p] = "Failed")

\* C13: when a command of the primary pipeline exits non-zero the run fails for
\* the package at once, and runs no later stage for it
C13_FailFast ==
    \A p \in Procs : failed[p] \cap Primary # {} => Failing(p)

\* what follows the local build
AfterMock ==
    {"commit", "push", "build", "checkout back", "merge", "cherry-pick",
     "cherry-pick abort", "rawhide push", "rawhide build"}
    \cup {RawhideCmds[k] : k \in 1..Len(RawhideCmds)}

\* the run of p with respect to the mock build
MockChecked(p) ==
    /\ reason[p] = "mock-results" =>
          /\ ~args[p].no_mockbuild
          /\ "mockbuild" \in effects[p] \ failed[p]
          /\ "results" \notin effects[p]
          /\ effects[p] \cap AfterMock = {}
          /\ Failing(p)
    /\ (~args[p].no_mockbuild /\ effects[p] \cap AfterMock # {}) =>
          /\ "mockbuild" \in effects[p] \ failed[p]
          /\ "results" \in effects[p]
    /\ args[p].no_mockbuild =>
          /\ effects[p] \cap {"mockbuild", "results"} = {}
          /\ reason[p] \notin {"mockbuild", "mock-results"}

\* the steps of p from line 399 and from line 406
MockStep(p) ==
    /\ (pc[p] = "mockbuild" /\ args[p].no_mockbuild /\ pc'[p] # pc[p]) => pc'[p] = "commit"
    /\ (pc[p] = "mock_results" /\ pc'[p] # pc[p]) =>
          IF "results" \in effects[p]
          THEN pc'[p] = "commit"
          ELSE reason'[p] = "mock-results" /\ Unlocking(p)'

\* C14: with the mock build on, a mock build that exits zero and leaves no
\* package fails the run, and no commit, push, propagation or remote build
\* follows; with the mock build off the run goes from prep to the commit
C14_MockDefence ==
    /\ [](\A p \in Procs : MockChecked(p))
    /\ [][\A p \in Procs : MockStep(p)]_vars

C14_Witness ==
    /\ Left(1) /\ reason[1] = "mock-results" /\ outcome[1] = "Failed"
    /\ "mockbuild" \in effects[1] \ failed[1] /\ "commit" \notin effects[1]
    /\ ~args[1].no_mockbuild /\ ~args[1].simulate

(***************************************************************************)
(* The propagation to rawhide (C15)                                        *)
(***************************************************************************)
\* the run of p propagates to rawhide
Propagates(p) == ~args[p].no_rawhide_sync /\ args[p].fedora_branch # "rawhide"

\* sync_to_rawhide_branch was called for the package of p
Synced(p) == "rawhide git clean" \in effects[p]

\* what sync_to_rawhide_branch runs
Propagation ==
    {RawhideCmds[k] : k \in 1..Len(RawhideCmds)}
    \cup {"merge", "cherry-pick", "cherry-pick abort", "rawhide push", "rawhide build"}

\* the propagation is tried only after a push that succeeded, for a target
\* branch other than rawhide, with no-rawhide-sync off
SyncedOnlyAfterPush(p) ==
    effects[p] \cap Propagation # {} =>
        /\ Synced(p)
        /\ "push" \in effects[p] \ failed[p]
        /\ args[p].fedora_branch # "rawhide"
        /\ ~args[p].no_rawhide_sync

\* after the propagation, whatever it did, the run of a target branch among
\* branches goes on to the remote build, and fails only if that build does
GoesOnToBuild(p, branches) ==
    (Synced(p) /\ args[p].fedora_branch \in branches) =>
        /\ \/ pc[p] \in {"release_tag", "build", "done"}
           \/ Unlocking(p)
           \/ Left(p)
        /\ (Unlocking(p) \/ Left(p)) =>
              /\ reason[p] \in {"build", "done"}
              /\ ~args[p].no_build => "build" \in effects[p]
              /\ reason[p] = "build" <=> "build" \in failed[p]

\* the step of p from lines 432-434, whatever the commands did
SyncStep(p) ==
    (pc[p] = "rawhide" /\ pc'[p] # pc[p]) =>
        /\ pc'[p] = "release_tag"
        /\ reason'[p] = reason[p]
        /\ Propagates(p) <=> Synced(p)'
        /\ Propagates(p) => "checkout back" \in effects'[p]

\* C15 as claimed: whatever the propagation did, the run goes on to the remote
\* build of every target branch (unless no-build is set); the propagation is
\* tried only after a successful push, off rawhide, with no-rawhide-sync off
C15_PropagationContained ==
    \A p \in Procs : SyncedOnlyAfterPush(p) /\ GoesOnToBuild(p, Branches)

\* C15 amended: the same for the target branches that have a release tag
C15_ContainedOnKnownBranches ==
    /\ [](\A p \in Procs : SyncedOnlyAfterPush(p) /\ GoesOnToBuild(p, KnownBranches))
    /\ [][\A p \in Procs : SyncStep(p)]_vars

C15_Witness ==
    /\ Left(1) /\ reason[1] = "done" /\ outcome[1] = "Done"
    /\ "cherry-pick" \in failed[1] /\ "checkout back" \in effects[1]
    /\ "build" \in effects[1] \ failed[1]
    /\ args[1].fedora_branch = "f42"

(***************************************************************************)
(* Simulate mode (C16, C17)                                                *)
(***************************************************************************)
\* what makes a change visible outside the working copy
Publishing == {"new-sources", "push", "checkout back", "build"} \cup Propagation

\* the stages of the upload and of what follows the push
PublishStages == {"new_sources", "rawhide", "release_tag", "build", "done"}

\* C16: in simulate mode no package is uploaded, pushed, propagated or built
\* remotely; the run stops after the local stages and leaves no marker
C16_SimulatePublishesNothing ==
    \A p \in Procs :
        /\ args[p].simulate =>
              /\ effects[p] \cap Publishing = {}
              /\ pc[p] \notin PublishStages
              /\ (Left(p) /\ reason[p] # "live-lock") => marker[idx[p] - 1] = NoFile
              /\ reason[p] # "done"
        /\ reason[p] = "simulate" =>
              /\ args[p].simulate
              /\ "commit" \in effects[p] \ failed[p]
              /\ Unlocking(p) \/ (Left(p) /\ outcome[p] = "Skipped")

C16_Witness ==
    /\ Left(1) /\ reason[1] = "simulate" /\ args[1].simulate
    /\ {"download", "rewrite", "prep"} \subseteq effects[1]
    /\ marker[idx[1] - 1] = NoFile

\* C17: in simulate mode no git commit runs in the working copy of a package
C17_SimulateCommitsNothing ==
    \A p \in Procs : args[p].simulate => "commit" \notin effects[p]

(***************************************************************************)
(* The sweep (C18)                                                         *)
(***************************************************************************)
\* C18: no skip or failure of a package stops the invocation before the end of
\* the list of packages
C18_SweepCompletes ==
    \A p \in Procs : pc[p] # "crash"

(***************************************************************************)
(* The rewrite of the descriptor (C19)                                     *)
(***************************************************************************)
\* the file at spec_filename is the whole descriptor that was checked out
CompleteOriginal(p) == \E l \in Layouts : spec_file[p] = Descriptor(l, version[p])

\* the lines of a descriptor, each rewritten by lines 376-383
RewriteAll(lines, version_dot, new) ==
    [i \in 1..Len(lines) |-> RewriteLine(lines[i], version_dot, new)]

\* the file at spec_filename is the whole rewritten descriptor
CompleteRewritten(p) ==
    /\ new_version[p] # None
    /\ \E l \in Layouts :
          LET lines == Descriptor(l, version[p])
          IN /\ \A i \in 1..Len(lines) : ~LineRaises(lines[i], Dot(version[p]), new_version[p])
             /\ spec_file[p] = RewriteAll(lines, Dot(version[p]), new_version[p])

\* the loop of lines 375-384 is under way, or an exception ended it
InRewrite(p) ==
    \/ pc[p] \in {"rewrite_line", "rename"}
    \/ pc[p] = "crash" /\ reason[p] \in {"IndexError", "OSError"}

\* the file at spec_filename is the whole original as long as the loop has not
\* ended, and the whole rewritten descriptor once it was swapped in
DescriptorWhole(p) ==
    /\ InRewrite(p) => CompleteOriginal(p)
    /\ pc[p] = "bump" => CompleteRewritten(p)

\* the file at spec_filename changes only by the rename, after the last line
\* was written to the temporary file
SwapStep(p) ==
    (spec_file[p] # <<>> /\ spec_file'[p] # <<>> /\ spec_file'[p] # spec_file[p]) =>
        /\ pc[p] = "rename"
        /\ Len(tmp_spec[p]) = Len(spec_file[p])
        /\ spec_file'[p] = RewriteAll(spec_file[p], Dot(version[p]), new_version[p])

\* C19: throughout the rewrite, also when an exception ends it after some of
\* the lines, the file at the path of the descriptor is the whole original or
\* the whole rewritten descriptor, and it is swapped in only after the last
\* line was written to the temporary file
C19_AtomicRewrite ==
    /\ [](\A p \in Procs : DescriptorWhole(p))
    /\ [][\A p \in Procs : SwapStep(p)]_vars

C19_Witness ==
    /\ pc[1] = "crash" /\ reason[1] = "IndexError"
    /\ Len(tmp_spec[1]) = 3 /\ version[1] = V45 /\ new_version[1] = V45_1
    /\ spec_file[1] = Descriptor(PlainLayout, V45)

\* the descriptor of 3.44.0 rewritten to 3.45.0 and swapped in
C19_Rewritten ==
    /\ pc[1] = "bump" /\ version[1] = V3_44_0 /\ new_version[1] = V3_45_0
    /\ Len(spec_file[1]) = 4
    /\ spec_file[1][2] = Descriptor(PlainLayout, V3_45_0)[2]
    /\ spec_file[1][3] = <<"Release:", " ", "0%{?dist}", "\n">>
    /\ spec_file[1][4] = Descriptor(PlainLayout, V3_45_0)[4]

(***************************************************************************)
(* The order of the stages (C20)                                           *)
(***************************************************************************)
\* the command ran for the package of p and exited zero
Succeeded(p, cmd) == cmd \in effects[p] \ failed[p]

StageOrder(p) ==
    /\ ("rewrite" \in effects[p] /\ ~Left(p)) =>
          /\ new_version[p] # None
          /\ LabelCompare(Tilde(new_version[p]), version[p]) > 0
    /\ "commit" \in effects[p] =>
          /\ {"rewrite", "rename"} \subseteq effects[p]
          /\ Succeeded(p, "prep")
          /\ ~args[p].no_mockbuild => Succeeded(p, "mockbuild")
    /\ "push" \in effects[p] => Succeeded(p, "commit")
    /\ effects[p] \cap Propagation # {} => Succeeded(p, "push")
    /\ "build" \in effects[p] =>
          /\ Succeeded(p, "push")
          /\ Propagates(p) => Synced(p) /\ "checkout back" \in effects[p]
    /\ reason[p] = "done" =>
          /\ Succeeded(p, "push")
          /\ Succeeded(p, "build") \/ args[p].no_build

\* C20: the descriptor is rewritten only for an update resolved as required; a
\* commit follows the rewrite and a successful prep (and mock build, when on);
\* a push a successful commit; the propagation a successful push; the remote
\* build a successful push and the propagation; Done a remote build that
\* succeeded or no-build
C20_StageOrder ==
    \A p \in Procs : StageOrder(p)

C20_Witness ==
    /\ Left(1) /\ reason[1] = "done" /\ outcome[1] = "Done"
    /\ {"rewrite", "rename", "prep", "mockbuild", "commit", "push", "rawhide push",
        "checkout back", "build"} \subseteq effects[1]
    /\ failed[1] = {}

(***************************************************************************)
(* The branch of the remote build (C21)                                    *)
(***************************************************************************)
\* p runs the fedpkg build of line 461 or 463 in this step
BuildTriggered(p) ==
    pc[p] = "build" /\ "build" \notin effects[p] /\ "build" \in effects'[p]

\* the working copy of the package p is at is on the target branch
OnTarget(p) == head[idx[p]] = args[p].fedora_branch

\* the propagation left the working copy of p on rawhide: its git checkout of
\* rawhide exited zero and the git checkout of the target branch did not
LeftOnRawhide(p) ==
    /\ "rawhide git checkout" \in effects[p] \ failed[p]
    /\ "checkout back" \in failed[p]

\* C21: whenever the remote build for the target branch is triggered, the
\* working copy is on the target branch, whatever the outcome of the
\* propagation and of the checkout that switches back
C21_BuildOnTarget ==
    [][\A p \in Procs : BuildTriggered(p) => OnTarget(p)]_vars

\* the remote build is triggered off the target branch only in a working copy
\* the propagation left on rawhide
C21_OffTargetOnlyAfterFailedBack ==
    [][\A p \in Procs :
          BuildTriggered(p) /\ ~OnTarget(p) =>
             LeftOnRawhide(p) /\ head[idx[p]] = "rawhide"]_vars

\* the remote build for f42 ran in a working copy on rawhide
C21_BuiltOnRawhide ==
    /\ pc[1] = "done" /\ Succeeded(1, "build") /\ args[1].fedora_branch = "f42"
    /\ LeftOnRawhide(1) /\ head[idx[1]] = "rawhide"

====
